---- MODULE Spec2Model ----
(***************************************************************************)
(* Model of google/cloud/documentai_toolbox/utilities/utilities.py:        *)
(*   create_batches                   (the batch builder)                  *)
(*   document_type_to_processor_type  (the processor type resolver)        *)
(*                                                                         *)
(* Python strings that the code inspects or builds (blob names, URIs) are  *)
(* sequences of code points, so that endswith("/") and the f-string        *)
(* concatenation are computed.  Strings that the code only compares for    *)
(* equality (MIME types, dictionary keys and values) are TLA+ strings.     *)
(* A Python value that may be None is a sequence of length 0 (None) or 1.  *)
(***************************************************************************)
EXTENDS Integers, Sequences, FiniteSets, TLC

VARIABLES
    pc,                 \* position of the create_batches call
    batch_size,         \* argument batch_size
    client_calls,       \* number of _get_storage_client() calls
    list_calls,         \* number of storage_client.list_blobs() calls
    yielded,            \* blobs the listing iterator has yielded so far
    batches,            \* local `batches`
    batch,              \* local `batch`
    printed,            \* lines written by print()
    result,             \* value returned to the caller (None until return)
    error,              \* exception that left create_batches (None if none)
    collaborator_error, \* exception the storage collaborator raised
    first_lookup,       \* first call of document_type_to_processor_type
    last_lookup         \* latest call of document_type_to_processor_type

vars == <<pc, batch_size, client_calls, list_calls, yielded, batches, batch,
          printed, result, error, collaborator_error, first_lookup, last_lookup>>

batchVars == <<pc, batch_size, client_calls, list_calls, yielded, batches,
               batch, printed, result, error, collaborator_error>>

None == <<>>
Some(x) == <<x>>

(***************************************************************************)
(* Bounds of the model                                                     *)
(***************************************************************************)
\* longest listing the storage collaborator yields
MaxBlobs == 5

(***************************************************************************)
(* constants.py                                                            *)
(***************************************************************************)
BATCH_MAX_FILES == 50

BATCH_MAX_FILE_SIZE == 1073741824

VALID_MIME_TYPES ==
    {"application/pdf", "image/bmp", "image/gif", "image/jpeg",
     "image/png", "image/tiff", "image/webp"}

(***************************************************************************)
(* Inputs                                                                  *)
(***************************************************************************)
\* batch_size arguments tried: negative, zero, small, the maximum, above it
BatchSizes == {-1, 0, 1, 2, 3, BATCH_MAX_FILES, BATCH_MAX_FILES + 1}

\* "/"
SLASH == 47

\* "b"
gcs_bucket_name == <<98>>

\* blob names
a_pdf == <<97, 46, 112, 100, 102>>
b_txt == <<98, 46, 116, 120, 116>>
c_pdf == <<99, 46, 112, 100, 102>>
d_pdf == <<100, 46, 112, 100, 102>>
e_png == <<101, 46, 112, 110, 103>>
g_pdf == <<103, 46, 112, 100, 102>>
f_txt == <<102, 46, 116, 120, 116>>
dir_slash == <<100, 105, 114, 47>>
tmp_slash == <<116, 109, 112, 47>>

Blob(name, content_type, size) ==
    [name |-> name, content_type |-> content_type, size |-> size]

\* The objects under gs://b/<prefix>.  Object names are unique in a bucket.
BucketObjects ==
    { Blob(a_pdf, "application/pdf", 100),
      Blob(d_pdf, "application/pdf", 100),
      Blob(e_png, "image/png", BATCH_MAX_FILE_SIZE),
      Blob(g_pdf, "application/pdf", 2048),
      Blob(dir_slash, "application/pdf", 0),
      Blob(tmp_slash, "text/plain", BATCH_MAX_FILE_SIZE + 1),
      Blob(b_txt, "text/plain", 100),
      Blob(c_pdf, "application/pdf", BATCH_MAX_FILE_SIZE + 1),
      Blob(f_txt, "text/plain", BATCH_MAX_FILE_SIZE + 1) }

\* Failures the storage collaborator can raise
CollaboratorErrors == { [type |-> "NotFound"], [type |-> "Forbidden"] }

Range(s) == { s[i] : i \in 1..Len(s) }

(***************************************************************************)
(* create_batches                                                          *)
(***************************************************************************)
\* str.endswith with a one-character suffix
EndsWith(name, ch) == Len(name) > 0 /\ name[Len(name)] = ch

\* line 49
InvalidBatchSizeOffByOne(bs) == bs > BATCH_MAX_FILES + 1

InvalidBatchSize(bs) == bs > BATCH_MAX_FILES

\* lines 50-52
ValueError(bs) ==
    [type |-> "ValueError",
     message |-> <<"Batch size must be less than ", BATCH_MAX_FILES,
                   ". You provided ", bs, ".">>]

\* line 61
IsDirectory(blob) == EndsWith(blob.name, SLASH)

\* line 64
InvalidMimeType(blob) == blob.content_type \notin VALID_MIME_TYPES

\* line 68
TooLargeInclusive(blob) == blob.size >= BATCH_MAX_FILE_SIZE

TooLarge(blob) == blob.size > BATCH_MAX_FILE_SIZE

\* line 65
MimeDiagnostic(blob) ==
    <<"Skipping file ", blob.name, ". Invalid Mime Type ", blob.content_type, ".">>

\* lines 69-71
SizeDiagnostic(blob) ==
    <<"Skipping file ", blob.name, ". File size must be less than ",
      BATCH_MAX_FILE_SIZE, " bytes. File size is ", blob.size, " bytes.">>

\* lines 83-86: gcs_uri = f"gs://{gcs_bucket_name}/{blob.name}"
GcsDocument(bucket, blob) ==
    [gcs_uri |-> <<103, 115, 58, 47, 47>> \o bucket \o <<SLASH>> \o blob.name,
     mime_type |-> blob.content_type]

\* lines 76-78 and 92-94
BatchDocumentsInputConfig(documents) ==
    [gcs_documents |-> [documents |-> documents]]

\* lines 75-79: batches.append(...)
SealInFront(bs, b) == <<BatchDocumentsInputConfig(b)>> \o bs

Seal(bs, b) == Append(bs, BatchDocumentsInputConfig(b))

\* lines 74-87: the tail of the loop body, for a blob no filter skipped
AddDocumentEager(s, bs, blob) ==
    LET added == [s EXCEPT !.batch = Append(@, GcsDocument(gcs_bucket_name, blob))]
    IN  IF Len(added.batch) = bs
        THEN [added EXCEPT !.batches = Seal(added.batches, added.batch),
                           !.batch = <<>>]
        ELSE added

AddDocument(s, bs, blob) ==
    LET sealed == IF Len(s.batch) = bs
                  THEN [s EXCEPT !.batches = Seal(s.batches, s.batch),
                                 !.batch = <<>>]
                  ELSE s
    IN  [sealed EXCEPT !.batch = Append(@, GcsDocument(gcs_bucket_name, blob))]

\* lines 59-87: one iteration of the for loop over s = (batches, batch, printed)
LoopBodySizeFirst(s, bs, blob) ==
    IF IsDirectory(blob) THEN s
    ELSE IF TooLarge(blob)
         THEN [s EXCEPT !.printed = Append(@, SizeDiagnostic(blob))]
    ELSE IF InvalidMimeType(blob)
         THEN [s EXCEPT !.printed = Append(@, MimeDiagnostic(blob))]
    ELSE AddDocument(s, bs, blob)

LoopBody(s, bs, blob) ==
    IF IsDirectory(blob) THEN s
    ELSE IF InvalidMimeType(blob)
         THEN [s EXCEPT !.printed = Append(@, MimeDiagnostic(blob))]
    ELSE IF TooLarge(blob)
         THEN [s EXCEPT !.printed = Append(@, SizeDiagnostic(blob))]
    ELSE AddDocument(s, bs, blob)

\* lines 89-97: the seal after the loop, and the value returned
FinalBatches(bs, b) == IF b # <<>> THEN Seal(bs, b) ELSE bs

\* what leaves create_batches when the collaborator raises e (no try/except)
PropagatedWrapped(e) == [type |-> "RuntimeError", cause |-> e]

Propagated(e) == e

BatchInit ==
    /\ pc = "start"
    /\ batch_size \in BatchSizes
    /\ client_calls = 0
    /\ list_calls = 0
    /\ yielded = <<>>
    /\ batches = <<>>
    /\ batch = <<>>
    /\ printed = <<>>
    /\ result = None
    /\ error = None
    /\ collaborator_error = None

ResolverIdle ==
    /\ first_lookup = None
    /\ last_lookup = None

\* lines 49-52: batch_size is rejected before anything else happens
RejectBatchSize ==
    /\ pc = "start"
    /\ InvalidBatchSize(batch_size)
    /\ pc' = "raised"
    /\ error' = Some(ValueError(batch_size))
    /\ UNCHANGED <<batch_size, client_calls, list_calls, yielded, batches,
                   batch, printed, result, collaborator_error,
                   first_lookup, last_lookup>>

\* lines 49-57: batch_size passes, the listing is requested
ListBlobs ==
    /\ pc = "start"
    /\ ~InvalidBatchSize(batch_size)
    /\ client_calls' = client_calls + 1
    /\ list_calls' = list_calls + 1
    /\ batches' = <<>>
    /\ batch' = <<>>
    /\ pc' = "loop"
    /\ UNCHANGED <<batch_size, yielded, printed, result, error,
                   collaborator_error, first_lookup, last_lookup>>

\* lines 49-55: batch_size passes, list_blobs raises
ListBlobsFails ==
    /\ pc = "start"
    /\ ~InvalidBatchSize(batch_size)
    /\ \E e \in CollaboratorErrors :
          /\ collaborator_error' = Some(e)
          /\ error' = Some(Propagated(e))
    /\ client_calls' = client_calls + 1
    /\ list_calls' = list_calls + 1
    /\ pc' = "raised"
    /\ UNCHANGED <<batch_size, yielded, batches, batch, printed, result,
                   first_lookup, last_lookup>>

\* lines 59-87: the iterator yields one more blob and the loop body runs
Iterate ==
    /\ pc = "loop"
    /\ Len(yielded) < MaxBlobs
    /\ \E blob \in BucketObjects \ Range(yielded) :
          LET s == LoopBody([batches |-> batches, batch |-> batch,
                             printed |-> printed], batch_size, blob)
          IN  /\ yielded' = Append(yielded, blob)
              /\ batches' = s.batches
              /\ batch' = s.batch
              /\ printed' = s.printed
    /\ UNCHANGED <<pc, batch_size, client_calls, list_calls, result, error,
                   collaborator_error, first_lookup, last_lookup>>

\* line 59: the iterator raises while it is being consumed
IterationFails ==
    /\ pc = "loop"
    /\ \E e \in CollaboratorErrors :
          /\ collaborator_error' = Some(e)
          /\ error' = Some(Propagated(e))
    /\ pc' = "raised"
    /\ UNCHANGED <<batch_size, client_calls, list_calls, yielded, batches,
                   batch, printed, result, first_lookup, last_lookup>>

\* lines 59, 89-97: the iterator is exhausted
Return ==
    /\ pc = "loop"
    /\ batches' = FinalBatches(batches, batch)
    /\ result' = Some(batches')
    /\ pc' = "returned"
    /\ UNCHANGED <<batch_size, client_calls, list_calls, yielded, batch,
                   printed, error, collaborator_error, first_lookup, last_lookup>>

(***************************************************************************)
(* document_type_to_processor_type                                         *)
(***************************************************************************)
\* lines 111-271: the dictionary built by every call
document_map ==
    \* Procurement Documents
       ("air_travel_statement" :> "EXPENSE_PROCESSOR")
    @@ ("car_rental_statement" :> "EXPENSE_PROCESSOR")
    @@ ("credit_card_slip" :> "EXPENSE_PROCESSOR")
    @@ ("credit_note" :> "INVOICE_PROCESSOR")
    @@ ("debit_note" :> "INVOICE_PROCESSOR")
    @@ ("ground_transportation_statement" :> "EXPENSE_PROCESSOR")
    @@ ("hotel_statement" :> "EXPENSE_PROCESSOR")
    @@ ("invoice_statement" :> "INVOICE_PROCESSOR")
    @@ ("purchase_order" :> "PURCHASE_ORDER_PROCESSOR")
    @@ ("receipt_statement" :> "EXPENSE_PROCESSOR")
    @@ ("restaurant_statement" :> "EXPENSE_PROCESSOR")
    @@ ("utility_statement" :> "UTILITY_PROCESSOR")
    \* Lending Documents
    @@ ("1003" :> "FORM_1003_PROCESSOR")
    @@ ("1003_2009" :> "FORM_1003_PROCESSOR")
    @@ ("1005_1996" :> "FORM_1005_PROCESSOR")
    @@ ("1040" :> "FORM_1040_PROCESSOR")
    @@ ("1040_2018" :> "FORM_1040_PROCESSOR")
    @@ ("1040_2019" :> "FORM_1040_PROCESSOR")
    @@ ("1040_2020" :> "FORM_1040_PROCESSOR")
    @@ ("1040_2021" :> "FORM_1040_PROCESSOR")
    @@ ("1040nr" :> "FORM_1040NR_PROCESSOR")
    @@ ("1040nr_2018" :> "FORM_1040NR_PROCESSOR")
    @@ ("1040nr_2019" :> "FORM_1040NR_PROCESSOR")
    @@ ("1040nr_2020" :> "FORM_1040NR_PROCESSOR")
    @@ ("1040nr_2021" :> "FORM_1040NR_PROCESSOR")
    @@ ("1040sc" :> "FORM_1040SCH_C_PROCESSOR")
    @@ ("1040sc_2018" :> "FORM_1040SCH_C_PROCESSOR")
    @@ ("1040sc_2019" :> "FORM_1040SCH_C_PROCESSOR")
    @@ ("1040sc_2020" :> "FORM_1040SCH_C_PROCESSOR")
    @@ ("1040sc_2021" :> "FORM_1040SCH_C_PROCESSOR")
    @@ ("1040sr" :> "FORM_1040SR_PROCESSOR")
    @@ ("1040sr_2018" :> "FORM_1040SR_PROCESSOR")
    @@ ("1040sr_2019" :> "FORM_1040SR_PROCESSOR")
    @@ ("1040sr_2020" :> "FORM_1040SR_PROCESSOR")
    @@ ("1040sr_2021" :> "FORM_1040SR_PROCESSOR")
    @@ ("1065" :> "FORM_1065_PROCESSOR")
    @@ ("1065_2018" :> "FORM_1065_PROCESSOR")
    @@ ("1065_2019" :> "FORM_1065_PROCESSOR")
    @@ ("1065_2020" :> "FORM_1065_PROCESSOR")
    @@ ("1065_2021" :> "FORM_1065_PROCESSOR")
    @@ ("1076_2016" :> "FORM_1076_PROCESSOR")
    @@ ("1099div" :> "FORM_1099DIV_PROCESSOR")
    @@ ("1099div_2018" :> "FORM_1099DIV_PROCESSOR")
    @@ ("1099div_2019" :> "FORM_1099DIV_PROCESSOR")
    @@ ("1099div_2020" :> "FORM_1099DIV_PROCESSOR")
    @@ ("1099div_2021" :> "FORM_1099DIV_PROCESSOR")
    @@ ("1099g" :> "FORM_1099G_PROCESSOR")
    @@ ("1099g_2018" :> "FORM_1099G_PROCESSOR")
    @@ ("1099g_2019" :> "FORM_1099G_PROCESSOR")
    @@ ("1099g_2020" :> "FORM_1099G_PROCESSOR")
    @@ ("1099g_2021" :> "FORM_1099G_PROCESSOR")
    @@ ("1099int" :> "FORM_1099INT_PROCESSOR")
    @@ ("1099int_2018" :> "FORM_1099INT_PROCESSOR")
    @@ ("1099int_2019" :> "FORM_1099INT_PROCESSOR")
    @@ ("1099int_2020" :> "FORM_1099INT_PROCESSOR")
    @@ ("1099int_2021" :> "FORM_1099INT_PROCESSOR")
    @@ ("1099misc" :> "FORM_1099MISC_PROCESSOR")
    @@ ("1099misc_2018" :> "FORM_1099MISC_PROCESSOR")
    @@ ("1099misc_2019" :> "FORM_1099MISC_PROCESSOR")
    @@ ("1099misc_2020" :> "FORM_1099MISC_PROCESSOR")
    @@ ("1099misc_2021" :> "FORM_1099MISC_PROCESSOR")
    @@ ("1099nec" :> "FORM_1099NEC_PROCESSOR")
    @@ ("1099nec_2018" :> "FORM_1099NEC_PROCESSOR")
    @@ ("1099nec_2019" :> "FORM_1099NEC_PROCESSOR")
    @@ ("1099nec_2020" :> "FORM_1099NEC_PROCESSOR")
    @@ ("1099nec_2021" :> "FORM_1099NEC_PROCESSOR")
    @@ ("1099r" :> "FORM_1099R_PROCESSOR")
    @@ ("1099r_2018" :> "FORM_1099R_PROCESSOR")
    @@ ("1099r_2019" :> "FORM_1099R_PROCESSOR")
    @@ ("1099r_2020" :> "FORM_1099R_PROCESSOR")
    @@ ("1099r_2021" :> "FORM_1099R_PROCESSOR")
    @@ ("1099sb" :> "FORM_1040SCH_B_PROCESSOR")
    @@ ("1099sb_2018" :> "FORM_1040SCH_B_PROCESSOR")
    @@ ("1099sb_2019" :> "FORM_1040SCH_B_PROCESSOR")
    @@ ("1099sb_2020" :> "FORM_1040SCH_B_PROCESSOR")
    @@ ("1099sb_2021" :> "FORM_1040SCH_B_PROCESSOR")
    @@ ("1099sd" :> "FORM_1040SCH_D_PROCESSOR")
    @@ ("1099sd_2018" :> "FORM_1040SCH_D_PROCESSOR")
    @@ ("1099sd_2019" :> "FORM_1040SCH_D_PROCESSOR")
    @@ ("1099sd_2020" :> "FORM_1040SCH_D_PROCESSOR")
    @@ ("1099sd_2021" :> "FORM_1040SCH_D_PROCESSOR")
    @@ ("1099se" :> "FORM_1040SCH_E_PROCESSOR")
    @@ ("1099se_2018" :> "FORM_1040SCH_E_PROCESSOR")
    @@ ("1099se_2019" :> "FORM_1040SCH_E_PROCESSOR")
    @@ ("1099se_2020" :> "FORM_1040SCH_E_PROCESSOR")
    @@ ("1099se_2021" :> "FORM_1040SCH_E_PROCESSOR")
    @@ ("1099ssa" :> "FORM_SSA1099_PROCESSOR")
    @@ ("1099ssa_2018" :> "FORM_SSA1099_PROCESSOR")
    @@ ("1099ssa_2019" :> "FORM_SSA1099_PROCESSOR")
    @@ ("1099ssa_2020" :> "FORM_SSA1099_PROCESSOR")
    @@ ("1099ssa_2021" :> "FORM_SSA1099_PROCESSOR")
    @@ ("1120" :> "FORM_1120_PROCESSOR")
    @@ ("1120_2018" :> "FORM_1120_PROCESSOR")
    @@ ("1120_2019" :> "FORM_1120_PROCESSOR")
    @@ ("1120_2020" :> "FORM_1120_PROCESSOR")
    @@ ("1120_2021" :> "FORM_1120_PROCESSOR")
    @@ ("1120s" :> "FORM_1120S_PROCESSOR")
    @@ ("1120s_2018" :> "FORM_1120S_PROCESSOR")
    @@ ("1120s_2019" :> "FORM_1120S_PROCESSOR")
    @@ ("1120s_2020" :> "FORM_1120S_PROCESSOR")
    @@ ("1120s_2021" :> "FORM_1120S_PROCESSOR")
    @@ ("1_4_Family_Rider_3170" :> "FORM_FAMILY_RIDER_PROCESSOR")
    @@ ("3108_Adjustable_Rate_Rider" :> "FORM_ADJUSTABLE_RIDER_PROCESSOR")
    @@ ("3140_Condominium_Rider" :> "FORM_CONDOMINIUM_RIDER_PROCESSOR")
    @@ ("3190_Balloon_Rider" :> "FORM_BALLOON_RIDER_PROCESSOR")
    @@ ("3890_Second_Home_Rider" :> "FORM_SECOND_HOME_RIDER_PROCESSOR")
    @@ ("4506_T" :> "FORM_4506T_PROCESSOR")
    @@ ("4506_T_2018" :> "FORM_4506T_PROCESSOR")
    @@ ("4506_T_2019" :> "FORM_4506T_PROCESSOR")
    @@ ("4506_T_2020" :> "FORM_4506T_PROCESSOR")
    @@ ("4506_T_2021" :> "FORM_4506T_PROCESSOR")
    @@ ("4506_T_EZ" :> "FORM_4506T_EZ_PROCESSOR")
    @@ ("4506_T_EZ_2018" :> "FORM_4506T_EZ_PROCESSOR")
    @@ ("4506_T_EZ_2019" :> "FORM_4506T_EZ_PROCESSOR")
    @@ ("4506_T_EZ_2020" :> "FORM_4506T_EZ_PROCESSOR")
    @@ ("4506_T_EZ_2021" :> "FORM_4506T_EZ_PROCESSOR")
    @@ ("account_statement_bank" :> "BANK_STATEMENT_PROCESSOR")
    @@ ("account_statement_investment_and_retirement" :> "RETIREMENT_INVESTMENT_STATEMENT_PROCESSOR")
    @@ ("dhs_flood_certification" :> "FORM_FLOOD_CERTIFICATE_PROCESSOR")
    @@ ("f11_12956_2017" :> "FORM_F11_12956_PROCESSOR")
    @@ ("hud_54114" :> "FORM_HUD54114_PROCESSOR")
    @@ ("hud_92051" :> "FORM_HUD92051_PROCESSOR")
    @@ ("hud_92541" :> "FORM_HUD92541_PROCESSOR")
    @@ ("hud_92544" :> "FORM_HUD92544_PROCESSOR")
    @@ ("hud_92800" :> "FORM_HUD92800_PROCESSOR")
    @@ ("hud_92900a" :> "FORM_HUD92900A_PROCESSOR")
    @@ ("hud_92900b" :> "FORM_HUD92900B_PROCESSOR")
    @@ ("hud_92900lt" :> "FORM_HUD92900LT_PROCESSOR")
    @@ ("hud_92900ws" :> "FORM_HUD92900WS_PROCESSOR")
    @@ ("mortgage_statements" :> "MORTGAGE_STATEMENT_PROCESSOR")
    @@ ("payslip" :> "PAYSTUB_PROCESSOR")
    @@ ("property_insurance" :> "PROPERTY_INSURANCE_PROCESSOR")
    @@ ("pud_rider" :> "FORM_PUD_RIDER_PROCESSOR")
    @@ ("revocable_trust_rider" :> "FORM_REVOCABLE_TRUST_RIDER_PROCESSOR")
    @@ ("ssa_89" :> "FORM_SSA89_PROCESSOR")
    @@ ("ssa_89_2018" :> "FORM_SSA89_PROCESSOR")
    @@ ("ssa_89_2019" :> "FORM_SSA89_PROCESSOR")
    @@ ("ssa_89_2020" :> "FORM_SSA89_PROCESSOR")
    @@ ("ssa_89_2021" :> "FORM_SSA89_PROCESSOR")
    @@ ("ucc_financing_statement" :> "FORM_UCC1_PROCESSOR")
    @@ ("usda_ad_3030" :> "FORM_USDA_CONDITIONAL_COMMITMENT_PROCESSOR")
    @@ ("vba_26_0551_2004" :> "FORM_VBA26_0551_PROCESSOR")
    @@ ("vba_26_8923_2021" :> "FORM_VBA26_8923_PROCESSOR")
    @@ ("w2" :> "FORM_W2_PROCESSOR")
    @@ ("w2_2018" :> "FORM_W2_PROCESSOR")
    @@ ("w2_2019" :> "FORM_W2_PROCESSOR")
    @@ ("w2_2020" :> "FORM_W2_PROCESSOR")
    @@ ("w2_2021" :> "FORM_W2_PROCESSOR")
    @@ ("w9" :> "FORM_W9_PROCESSOR")
    @@ ("w9_2017" :> "FORM_W9_PROCESSOR")
    @@ ("w9_2018" :> "FORM_W9_PROCESSOR")
    @@ ("w9_2019" :> "FORM_W9_PROCESSOR")
    @@ ("w9_2020" :> "FORM_W9_PROCESSOR")
    @@ ("w9_2021" :> "FORM_W9_PROCESSOR")
    \* Identity Documents
    @@ ("us_driver_license" :> "US_DRIVER_LICENSE_PROCESSOR")
    @@ ("us_passport" :> "US_PASSPORT_PROCESSOR")

\* str.lower() on the document types tried that are not dictionary keys
Lower(document_type) ==
    CASE document_type = "W2" -> "w2"
      [] document_type = "W9" -> "w9"
      [] document_type = "Invoice_Statement" -> "invoice_statement"
      [] OTHER -> document_type

\* line 273: document_map.get(document_type, None)
DictGetCaseFolded(d, key) ==
    IF Lower(key) \in DOMAIN d
    THEN [raised |-> FALSE, value |-> Some(d[Lower(key)])]
    ELSE [raised |-> FALSE, value |-> None]

DictGet(d, key) ==
    IF key \in DOMAIN d
    THEN [raised |-> FALSE, value |-> Some(d[key])]
    ELSE [raised |-> FALSE, value |-> None]

\* lines 100-273
document_type_to_processor_type(document_type) ==
    DictGet(document_map, document_type)

\* document types that are not keys: other case, prefixes, extensions, empty
UnknownTypes ==
    {"unknown_type", "W2", "W9", "Invoice_Statement", "w", "w2_", "w2_20",
     "1040s", ""}

DocumentTypes == DOMAIN document_map \cup UnknownTypes

Call(document_type) ==
    LET r == document_type_to_processor_type(document_type)
    IN  [document_type |-> document_type, raised |-> r.raised, value |-> r.value]

\* the first call of the resolver
FirstLookup ==
    /\ first_lookup = None
    /\ \E document_type \in DocumentTypes :
          /\ first_lookup' = Some(Call(document_type))
          /\ last_lookup' = Some(Call(document_type))
    /\ UNCHANGED batchVars

\* every later call
LaterLookup ==
    /\ first_lookup # None
    /\ \E document_type \in DocumentTypes :
          last_lookup' = Some(Call(document_type))
    /\ UNCHANGED <<first_lookup, batchVars>>

\* No create_batches call is in progress
BatchIdle ==
    /\ pc = "idle"
    /\ batch_size = 0
    /\ client_calls = 0
    /\ list_calls = 0
    /\ yielded = <<>>
    /\ batches = <<>>
    /\ batch = <<>>
    /\ printed = <<>>
    /\ result = None
    /\ error = None
    /\ collaborator_error = None

InitResolver == BatchIdle /\ ResolverIdle

NextResolver ==
    \/ FirstLookup
    \/ LaterLookup

SpecResolver == InitResolver /\ [][NextResolver]_vars

Init == BatchInit /\ ResolverIdle

Next ==
    \/ RejectBatchSize
    \/ ListBlobs
    \/ ListBlobsFails
    \/ Iterate
    \/ IterationFails
    \/ Return

Spec == Init /\ [][Next]_vars

(***************************************************************************)
(* Properties                                                              *)
(***************************************************************************)
\* The eligibility rule of the specification, stated on the listed object
Eligible(blob) ==
    /\ blob.name[Len(blob.name)] # SLASH
    /\ blob.content_type \in VALID_MIME_TYPES
    /\ blob.size <= BATCH_MAX_FILE_SIZE

\* the document reference expected for a listed object of bucket "b"
DocOf(blob) ==
    [gcs_uri |-> <<103, 115, 58, 47, 47, 98, 47>> \o blob.name,
     mime_type |-> blob.content_type]

Accepted == SelectSeq(yielded, Eligible)

ExpectedDocs == [i \in 1..Len(Accepted) |-> DocOf(Accepted[i])]

Documents(descriptor) == descriptor.gcs_documents.documents

RECURSIVE Flatten(_)
Flatten(descriptors) ==
    IF descriptors = <<>> THEN <<>>
    ELSE Documents(Head(descriptors)) \o Flatten(Tail(descriptors))

\* number of documents in the first i descriptors
RECURSIVE DocsBefore(_, _)
DocsBefore(descriptors, i) ==
    IF i = 0 THEN 0
    ELSE DocsBefore(descriptors, i - 1) + Len(Documents(descriptors[i]))

\* ceil(n / d) for d # 0
CeilDiv(n, d) == IF d > 0 THEN (n + d - 1) \div d ELSE -(n \div (-d))

Returned == pc = "returned"

\* C1: a returned call has ceil(N / batch_size) descriptors for N eligible
\* objects, all of length batch_size except the last, whose length is
\* N mod batch_size (batch_size when that is 0); no descriptor when N = 0.
C1_DescriptorCount ==
    Returned =>
        LET N == Len(Accepted)
            r == result[1]
            n == Len(r)
        IN  /\ N = 0 => r = <<>>
            /\ N > 0 =>
                  /\ batch_size # 0
                  /\ n = CeilDiv(N, batch_size)
                  /\ \A i \in 1..(n - 1) : Len(Documents(r[i])) = batch_size
                  /\ Len(Documents(r[n])) =
                        IF N % batch_size = 0 THEN batch_size ELSE N % batch_size

\* C2: in a returned call no descriptor is empty: all but the last hold
\* exactly batch_size entries, the last between 1 and batch_size.
C2_NoEmptyDescriptor ==
    Returned =>
        LET r == result[1]
            n == Len(r)
        IN  \A i \in 1..n :
               /\ i < n => Len(Documents(r[i])) = batch_size
               /\ i = n => /\ Len(Documents(r[i])) >= 1
                           /\ Len(Documents(r[i])) <= batch_size

\* C3: with batch_size > BATCH_MAX_FILES the call ends in ValueError, never
\* obtains the client, never lists, prints nothing and returns nothing; the
\* listing is only ever requested with batch_size <= BATCH_MAX_FILES.
C3_RejectedBeforeIO ==
    /\ batch_size > BATCH_MAX_FILES =>
          /\ client_calls = 0
          /\ list_calls = 0
          /\ yielded = <<>>
          /\ printed = <<>>
          /\ result = None
          /\ pc \in {"start", "raised"}
          /\ pc = "raised" => error # None /\ error[1].type = "ValueError"
    /\ list_calls > 0 => batch_size <= BATCH_MAX_FILES

C3_Witness == pc = "raised" /\ batch_size > BATCH_MAX_FILES

\* C4: the descriptors of a returned call, concatenated, are the accepted
\* objects in listing order, and the descriptor boundaries are exactly the
\* positions after every batch_size-th accepted object.
C4_OrderAndBoundaries ==
    Returned =>
        LET N == Len(Accepted)
            r == result[1]
        IN  /\ Flatten(r) = ExpectedDocs
            /\ { DocsBefore(r, i) : i \in 1..(Len(r) - 1) } =
                  { p \in 1..(N - 1) : \E k \in 1..N : p = k * batch_size }

ScenarioListing ==
    << Blob(a_pdf, "application/pdf", 100),
       Blob(dir_slash, "application/pdf", 0),
       Blob(b_txt, "text/plain", 100),
       Blob(c_pdf, "application/pdf", BATCH_MAX_FILE_SIZE + 1),
       Blob(d_pdf, "application/pdf", 100) >>

ScenarioResult ==
    << [gcs_documents |-> [documents |->
          << [gcs_uri |-> <<103, 115, 58, 47, 47, 98, 47, 97, 46, 112, 100, 102>>,
              mime_type |-> "application/pdf"],
             [gcs_uri |-> <<103, 115, 58, 47, 47, 98, 47, 100, 46, 112, 100, 102>>,
              mime_type |-> "application/pdf"] >>]] >>

\* C5: in a returned call a listed object is in some descriptor exactly when
\* its name does not end in "/", its content type is valid and its size is
\* at most BATCH_MAX_FILE_SIZE, wherever it stands in the listing; the
\* listing [a.pdf, dir/, b.txt, c.pdf (oversized), d.pdf] with batch_size 2
\* returns the single descriptor [a.pdf, d.pdf].
C5_IncludedIffEligible ==
    Returned =>
        /\ \A i \in 1..Len(yielded) :
              (\E j \in 1..Len(result[1]) :
                  DocOf(yielded[i]) \in Range(Documents(result[1][j])))
              <=> Eligible(yielded[i])
        /\ (yielded = ScenarioListing /\ batch_size = 2) =>
              result = Some(ScenarioResult)

C5_Witness ==
    /\ Returned
    /\ batch_size = 2
    /\ yielded = ScenarioListing
    /\ result = Some(ScenarioResult)

C5_WitnessMaxSize ==
    /\ Returned
    /\ \E i \in 1..Len(yielded) :
          /\ yielded[i].size = BATCH_MAX_FILE_SIZE
          /\ DocOf(yielded[i]) \in Range(Flatten(result[1]))

\* C6: a lookup never raises; it returns the table's value when the argument
\* is exactly a key and None otherwise (other case, prefixes and extensions
\* of keys included); "w2" gives "FORM_W2_PROCESSOR", "unknown_type" gives
\* None; a repeated lookup returns what the first one returned.
C6_ExactLookup ==
    last_lookup # None =>
        LET l == last_lookup[1]
            f == first_lookup[1]
        IN  /\ ~l.raised
            /\ l.document_type \in DOMAIN document_map =>
                  l.value = Some(document_map[l.document_type])
            /\ l.document_type \notin DOMAIN document_map => l.value = None
            /\ l.document_type \in
                  {"unknown_type", "W2", "W9", "Invoice_Statement", "w", "w2_",
                   "w2_20", "1040s", ""} => l.value = None
            /\ l.document_type = "w2" => l.value = Some("FORM_W2_PROCESSOR")
            /\ l.document_type = "w9" => l.value = Some("FORM_W9_PROCESSOR")
            /\ l.document_type = "invoice_statement" =>
                  l.value = Some("INVOICE_PROCESSOR")
            /\ f.document_type = l.document_type => f.value = l.value

C6_Witness ==
    /\ first_lookup # None
    /\ last_lookup # None
    /\ first_lookup[1].document_type = "W2"
    /\ first_lookup[1].value = None
    /\ last_lookup[1].document_type = "w2"
    /\ last_lookup[1].value = Some("FORM_W2_PROCESSOR")

\* the diagnostic the specification expects for a listed object, if any
RECURSIVE ExpectedDiagnostics(_)
ExpectedDiagnostics(blobs) ==
    IF blobs = <<>> THEN <<>>
    ELSE LET b == Head(blobs)
             rest == ExpectedDiagnostics(Tail(blobs))
         IN  IF b.name[Len(b.name)] = SLASH THEN rest
             ELSE IF b.content_type \notin VALID_MIME_TYPES
                  THEN <<<<"Skipping file ", b.name, ". Invalid Mime Type ",
                           b.content_type, ".">>>> \o rest
             ELSE IF b.size > BATCH_MAX_FILE_SIZE
                  THEN <<<<"Skipping file ", b.name,
                           ". File size must be less than ", BATCH_MAX_FILE_SIZE,
                           " bytes. File size is ", b.size, " bytes.">>>> \o rest
             ELSE rest

C7_DiagnosticsMatch ==
    pc \in {"loop", "returned"} => printed = ExpectedDiagnostics(yielded)

C7_SkipContinues ==
    (pc = "loop" /\ yielded' # yielded /\ ~Eligible(yielded'[Len(yielded')]))
        => (pc' = "loop" /\ batches' = batches /\ batch' = batch)

\* C7: the filters run in the order directory, MIME type, size; the lines
\* printed are, in listing order, one MIME line per non-directory entry of
\* invalid MIME type and one size line per oversized entry of valid MIME
\* type, nothing for directories and accepted entries; a skip leaves the
\* batches alone and the loop goes on.
C7_Diagnostics == []C7_DiagnosticsMatch /\ [][C7_SkipContinues]_vars

C7_Witness ==
    /\ Returned
    /\ Len(yielded) = 4
    /\ yielded[1].name = tmp_slash
    /\ yielded[2].name = f_txt
    /\ yielded[3].name = c_pdf
    /\ yielded[4].name = a_pdf
    /\ Len(printed) = 2
    /\ printed[1][3] = ". Invalid Mime Type "
    /\ printed[2][3] = ". File size must be less than "
    /\ Len(Flatten(result[1])) = 1

C8_FailureState ==
    collaborator_error # None =>
        /\ pc = "raised"
        /\ error = collaborator_error
        /\ result = None

C8_FailureStep ==
    collaborator_error' # None =>
        /\ result' = None
        /\ collaborator_error # None => yielded' = yielded

\* C8: when the storage collaborator raises, at list_blobs or during the
\* iteration, create_batches ends with that very exception, returns nothing
\* (the batches already sealed included) and consumes no further entry.
C8_FailurePropagates == []C8_FailureState /\ [][C8_FailureStep]_vars

C8_Witness ==
    /\ pc = "raised"
    /\ collaborator_error # None
    /\ error = collaborator_error
    /\ Len(batches) >= 1
    /\ result = None

\* C9 as stated: with batch_size >= 1, after each listing entry has been
\* processed the in-progress batch holds strictly fewer than batch_size
\* entries.
C9_InProgressBelowBatchSize ==
    (batch_size >= 1 /\ pc = "loop") => Len(batch) < batch_size

\* C9 amended: with batch_size >= 1 the in-progress batch is sealed only
\* when the next accepted entry finds it full, and that entry starts the new
\* batch: between iterations the in-progress batch holds at most batch_size
\* entries, at least one once an entry was accepted, every sealed
\* descriptor holds exactly batch_size entries, and the final seal emits the
\* in-progress batch, full or not.
C9_SealDeferred ==
    batch_size >= 1 =>
        /\ pc = "loop" =>
              /\ Len(batch) <= batch_size
              /\ Accepted # <<>> => Len(batch) >= 1
              /\ \A i \in 1..Len(batches) :
                    Len(Documents(batches[i])) = batch_size
              /\ Len(Accepted) = batch_size * Len(batches) + Len(batch)
        /\ (Returned /\ batch # <<>>) =>
              /\ Documents(result[1][Len(result[1])]) = batch
              /\ Len(result[1]) * batch_size >= Len(Accepted)

C9_Witness ==
    /\ pc = "loop"
    /\ batch_size >= 1
    /\ Len(batches) >= 1
    /\ Len(batch) = batch_size

C9_WitnessFinalSealFull ==
    /\ Returned
    /\ batch_size >= 1
    /\ Len(result[1]) >= 2
    /\ Len(batch) = batch_size

C10_Step ==
    /\ Len(batches') >= Len(batches)
    /\ SubSeq(batches', 1, Len(batches)) = batches
    /\ result' # None => result' = Some(batches')

\* C10: a sealed descriptor never changes and never moves: every step keeps
\* the output sequence as a prefix of the new one, and the value returned is
\* that sequence.
C10_SealedImmutable == [][C10_Step]_vars

C10_Witness ==
    /\ pc = "loop"
    /\ Len(batches) >= 2
    /\ batch # <<>>
    /\ batches[1] # batches[2]

====
